---- MODULE Spec2Model ----
(***************************************************************************)
(* Model of the Translator factory (locale registry, locale selection,     *)
(* deep key lookup and delimiter-driven template substitution).            *)
(*                                                                         *)
(* JavaScript strings are modelled as sequences of one-character strings.  *)
(* JavaScript values that the code walks with _.get (word trees, data) are *)
(* modelled as nodes: undefined, a string, or an object with an ordered    *)
(* list of own properties.                                                 *)
(*                                                                         *)
(* Input domain: locale names are ordinary non-empty locale identifiers    *)
(* that do not collide with members of Object.prototype; a locale          *)
(* definition is an object or undefined (the documented parameter type of  *)
(* add, "Object|undefined"); substitution values are strings.              *)
(***************************************************************************)
EXTENDS Integers, Sequences, FiniteSets, TLC

VARIABLES locales, locale, delimiters, call, outcome, everSet, repeated

vars == <<locales, locale, delimiters, call, outcome, everSet, repeated>>

-----------------------------------------------------------------------------
(* Bounds *)

NumNames == 2
MaxMapLen == 2
MaxPlaceholders == 2

-----------------------------------------------------------------------------
(* JavaScript values *)

Undef == [t |-> "undefined", s |-> <<>>, kv |-> <<>>]

Str(s) == [t |-> "string", s |-> s, kv |-> <<>>]

Obj(kv) == [t |-> "object", s |-> <<>>, kv |-> kv]

P(k, v) == [k |-> k, v |-> v]

\* ToBoolean on a node: undefined and the empty string are falsy
Truthy(n) == n.t = "object" \/ (n.t = "string" /\ n.s # <<>>)

\* ToString on a defined substitution value
ToStr(n) == IF n.t = "string" THEN n.s ELSE <<"[object Object]">>

HasOwn(n, k) == n.t = "object" /\ \E i \in 1..Len(n.kv) : n.kv[i].k = k

\* property read n[k]; reading a name off a string or a missing own
\* property gives undefined
Prop(n, k) ==
  IF HasOwn(n, k)
    THEN n.kv[CHOOSE i \in 1..Len(n.kv) : n.kv[i].k = k].v
    ELSE Undef

Min(S) == CHOOSE x \in S : \A y \in S : x <= y

Max(S) == CHOOSE x \in S : \A y \in S : x >= y

\* the dotted path of lodash's _.get: split at every "."
RECURSIVE SplitDots(_)
SplitDots(s) ==
  LET dots == {i \in 1..Len(s) : s[i] = "."}
  IN IF dots = {} THEN <<s>>
     ELSE <<SubSeq(s, 1, Min(dots) - 1)>>
            \o SplitDots(SubSeq(s, Min(dots) + 1, Len(s)))

\* the walk of _.get: stop with undefined as soon as the value is undefined
RECURSIVE baseGet(_, _)
baseGet(n, path) ==
  IF path = <<>> THEN n
  ELSE IF n.t = "undefined" THEN Undef
  ELSE baseGet(Prop(n, Head(path)), Tail(path))

\* _.get(object, path): a path that is itself an own key is used as is
get(n, key) ==
  IF n.t = "undefined" THEN Undef
  ELSE baseGet(n, IF HasOwn(n, key) THEN <<key>> ELSE SplitDots(key))

-----------------------------------------------------------------------------
(* Locale definitions: objects with an identity (id) and a words tree *)

UndefinedDef == [id |-> "undefined", words |-> Undef]

TruthyDef(d) == d.id # "undefined"

NoLocale == "<undefined>"

NameList == <<"en", "nl", "fr", "de", "es">>

Names == {NameList[i] : i \in 1..NumNames}

DefaultDelimiters == << <<"{", "{">>, <<"}", "}">> >>

CustomDelimiters == << <<"<", "@", "=">>, <<"@", ">">> >>

\* {words: {a: 'x {{a}}', b: {a: 'y'}, c: ''}}
Def1 ==
  [id |-> "d1",
   words |-> Obj(<< P(<<"a">>, Str(<<"x", " ", "{", "{", "a", "}", "}">>)),
                    P(<<"b">>, Obj(<< P(<<"a">>, Str(<<"y">>)) >>)),
                    P(<<"c">>, Str(<<>>)) >>)]

\* {} : a definition without words, as the tests register
Def2 == [id |-> "d2", words |-> Undef]

\* {words: {a: 'z <@=a@>'}}
Def3 ==
  [id |-> "d3",
   words |-> Obj(<< P(<<"a">>, Str(<<"z", " ", "<", "@", "=", "a", "@", ">">>)) >>)]

DefPool == {Def1, Def2, Def3, UndefinedDef}

-----------------------------------------------------------------------------
(* Translator.prototype *)

\* this.locales[name]: the stored definition, undefined for a missing key
Read(ls, name) == IF name \in DOMAIN ls THEN ls[name] ELSE UndefinedDef

\* variant: a missing entry falls back to an empty definition,
\* this.locale && (this.locales[this.locale] || {})
currentLocaleOrEmpty(ls, l) ==
  IF l = NoLocale THEN UndefinedDef
  ELSE IF l \in DOMAIN ls THEN ls[l] ELSE Def2

\* get currentLocale(): this.locale && this.locales[this.locale]
currentLocale(ls, l) ==
  IF l = NoLocale THEN UndefinedDef ELSE Read(ls, l)

\* variant: an existing entry is kept instead of overwritten
addKeepExisting(ls, name, def) ==
  [n \in DOMAIN ls \cup {name} |-> IF n \in DOMAIN ls THEN ls[n] ELSE def]

\* variant: the map is replaced by one holding only the new entry
addReplaceAll(ls, name, def) == [n \in {name} |-> def]

\* add(name, localeDefinition), string form: this.locales[name] = def
add(ls, name, def) ==
  [n \in DOMAIN ls \cup {name} |-> IF n = name THEN def ELSE ls[n]]

\* variant: the iteration starts at the second entry
RECURSIVE addEachSkipFirst(_, _)
addEachSkipFirst(ls, m) ==
  IF Len(m) <= 1 THEN ls
  ELSE addEachSkipFirst(add(ls, m[2].name, m[2].def), Tail(m))

\* add(map), object form: _.each(map, (def, name) => this.add(name, def))
RECURSIVE addEach(_, _)
addEach(ls, m) ==
  IF m = <<>> THEN ls
  ELSE addEach(add(ls, Head(m).name, Head(m).def), Tail(m))

\* variant: the check is for the presence of the key
setLocaleKeyCheck(ls, l, name) ==
  IF name \notin DOMAIN ls
    THEN [locale |-> l, threw |-> TRUE]
    ELSE [locale |-> name, threw |-> FALSE]

\* variant: the assignment comes before the check
setLocaleAssignFirst(ls, l, name) ==
  IF ~TruthyDef(Read(ls, name))
    THEN [locale |-> name, threw |-> TRUE]
    ELSE [locale |-> name, threw |-> FALSE]

\* setLocale(locale): throws when this.locales[locale] is falsy, before the
\* assignment; otherwise this.locale = locale
setLocale(ls, l, name) ==
  IF ~TruthyDef(Read(ls, name))
    THEN [locale |-> l, threw |-> TRUE]
    ELSE [locale |-> name, threw |-> FALSE]

-----------------------------------------------------------------------------
(* Delimiter compilation and the template matchers *)

RegExpSpecials ==
  {"-", "[", "]", "/", "{", "}", "(", ")", "*", "+", "?", ".", "\\", "^", "$", "|"}

\* escapeRegExp(str): a backslash in front of every special character
RECURSIVE escapeRegExp(_)
escapeRegExp(str) ==
  IF str = <<>> THEN <<>>
  ELSE (IF Head(str) \in RegExpSpecials THEN <<"\\", Head(str)>> ELSE <<Head(str)>>)
         \o escapeRegExp(Tail(str))

\* the text a pattern source made of plain and backslash-escaped characters
\* matches: new RegExp(src) matches exactly this literal
RECURSIVE Literal(_)
Literal(src) ==
  IF src = <<>> THEN <<>>
  ELSE IF Head(src) = "\\" /\ Len(src) >= 2
    THEN <<src[2]>> \o Literal(SubSeq(src, 3, Len(src)))
    ELSE <<Head(src)>> \o Literal(Tail(src))

\* the start and end delimiter texts the compiled matchers look for
startDelimiter(d) == Literal(escapeRegExp(d[1]))

endDelimiter(d) == Literal(escapeRegExp(d[2]))

Whitespace == {" "}

OccursAt(s, p, i) ==
  /\ i >= 1
  /\ i + Len(p) - 1 <= Len(s)
  /\ SubSeq(s, i, i + Len(p) - 1) = p

\* translation.match(templateRegex) with
\* templateRegex = /S\s*([\s|\S]+)\s*E/g.  The three quantified parts
\* together match any non-empty text and are greedy, so a match starts at
\* the leftmost S that has an E at least one character after it and runs
\* to the LAST such E; the search then resumes after the match.
\* The result is the list of matched texts (empty for null).
RECURSIVE matchAll(_, _, _, _)
matchAll(s, S, E, from) ==
  LET ends(i) == {q \in (i + Len(S) + 1)..Len(s) : OccursAt(s, E, q)}
      starts == {i \in from..Len(s) : OccursAt(s, S, i) /\ ends(i) # {}}
  IN IF starts = {} THEN <<>>
     ELSE LET i == Min(starts)
              e == Max(ends(i)) + Len(E)
          IN <<SubSeq(s, i, e - 1)>> \o matchAll(s, S, E, e)

\* match.replace(startDelimiterRegex, '') with /^S/
stripStart(m, S) ==
  IF OccursAt(m, S, 1) THEN SubSeq(m, Len(S) + 1, Len(m)) ELSE m

\* .replace(endDelimiterRegex, '') with /E$/
stripEnd(m, E) ==
  IF OccursAt(m, E, Len(m) - Len(E) + 1) THEN SubSeq(m, 1, Len(m) - Len(E)) ELSE m

\* .replace(/\s+/g, '')
stripWhitespace(m) == SelectSeq(m, LAMBDA c : c \notin Whitespace)

\* the replacement text of String.prototype.replace(string, string):
\* $$ is a dollar, $& the matched text, $` the text before it and $' the
\* text after it; everything else is copied
RECURSIVE expand(_, _, _, _)
expand(r, m, pre, post) ==
  IF r = <<>> THEN <<>>
  ELSE IF Head(r) = "$" /\ Len(r) >= 2 /\ r[2] \in {"$", "&", "`", "'"}
    THEN (CASE r[2] = "$" -> <<"$">>
            [] r[2] = "&" -> m
            [] r[2] = "`" -> pre
            [] r[2] = "'" -> post)
           \o expand(SubSeq(r, 3, Len(r)), m, pre, post)
    ELSE <<Head(r)>> \o expand(Tail(r), m, pre, post)

\* translation.replace(match, val): the first occurrence of the text
replaceFirst(s, pat, val) ==
  LET occ == {i \in 1..Len(s) : OccursAt(s, pat, i)}
  IN IF occ = {} THEN s
     ELSE LET i == Min(occ)
              pre == SubSeq(s, 1, i - 1)
              post == SubSeq(s, i + Len(pat), Len(s))
          IN pre \o expand(val, pat, pre, post) \o post

\* the body of _.each(variableMatches, ...): one substitution per match
RECURSIVE substitute(_, _, _, _)
substitute(translation, matches, d, data) ==
  IF matches = <<>> THEN translation
  ELSE LET match == Head(matches)
           key == stripWhitespace(stripEnd(stripStart(match, startDelimiter(d)),
                                           endDelimiter(d)))
           found == get(data, key)
           val == IF found.t # "undefined" THEN ToStr(found) ELSE <<>>
       IN substitute(replaceFirst(translation, match, val), Tail(matches), d, data)

Outcome(kind, value) == [kind |-> kind, value |-> value]

\* variant: only an undefined translation counts as not found
translateStrictUndefined(ls, l, d, key, dataArg) ==
  LET data == IF dataArg.t = "undefined" THEN Obj(<<>>) ELSE dataArg
      cur == currentLocale(ls, l)
      translation == get(cur.words, key)
  IN IF ~TruthyDef(cur) THEN Outcome("NoActiveLocaleError", <<>>)
     ELSE IF translation.t = "undefined" THEN Outcome("TranslationNotFoundError", <<>>)
     ELSE IF translation.t # "string" THEN Outcome("TypeError", <<>>)
     ELSE Outcome("ok",
                  substitute(translation.s,
                             matchAll(translation.s, startDelimiter(d),
                                      endDelimiter(d), 1),
                             d, data))

\* translate(key, data = {}): the outcome is the returned string or the
\* kind of error thrown; calling match on a translation that is not a
\* string is a TypeError
translate(ls, l, d, key, dataArg) ==
  LET data == IF dataArg.t = "undefined" THEN Obj(<<>>) ELSE dataArg
      cur == currentLocale(ls, l)
      translation == get(cur.words, key)
  IN IF ~TruthyDef(cur) THEN Outcome("NoActiveLocaleError", <<>>)
     ELSE IF ~Truthy(translation) THEN Outcome("TranslationNotFoundError", <<>>)
     ELSE IF translation.t # "string" THEN Outcome("TypeError", <<>>)
     ELSE Outcome("ok",
                  substitute(translation.s,
                             matchAll(translation.s, startDelimiter(d),
                                      endDelimiter(d), 1),
                             d, data))

\* variant: the substituted text is written back into the words
localesAfterTranslateCaching(ls, l, d, key, dataArg) ==
  IF translate(ls, l, d, key, dataArg).kind = "ok"
    THEN [ls EXCEPT ![l] =
            [@ EXCEPT !.words =
               Obj(<< P(key, Str(translate(ls, l, d, key, dataArg).value)) >>)]]
    ELSE ls

\* what translate leaves in this.locales: it assigns to nothing but its
\* local variable translation
localesAfterTranslate(ls, l, d, key, dataArg) == ls

-----------------------------------------------------------------------------
(* Calls made on a Translator *)

NoName == "<none>"

Call(op, name, def, map, key, data) ==
  [op |-> op, name |-> name, def |-> def, map |-> map, key |-> key, data |-> data]

NoCall == Call("construct", NoName, UndefinedDef, <<>>, <<>>, Undef)

\* a mapping of locale names to definitions, in its iteration order
Entries == [name : Names, def : {Def1, UndefinedDef}]

RECURSIVE MappingsOfLen(_)
MappingsOfLen(n) ==
  IF n = 0 THEN {<<>>}
  ELSE {Append(m, e) : m \in MappingsOfLen(n - 1),
                       e \in Entries}

DistinctNames(m) == \A i, j \in 1..Len(m) : i # j => m[i].name # m[j].name

Mappings ==
  {m \in UNION {MappingsOfLen(n) : n \in 0..MaxMapLen} : DistinctNames(m)}

KeyPool == {<<"a">>, <<"b", ".", "a">>, <<"b">>, <<"c">>, <<"d">>}

DataPool == {Undef, Obj(<< P(<<"a">>, Str(<<"1">>)) >>)}

\* Translator(options): locales = options.locales || {},
\* locale = options.defaultLocale (not validated), delimiters from options
Init ==
  /\ locales \in UNION {[D -> DefPool] : D \in SUBSET Names}
  /\ locale \in Names \cup {NoLocale}
  /\ delimiters \in {DefaultDelimiters, CustomDelimiters}
  /\ call = NoCall
  /\ outcome = Outcome("ok", <<>>)
  /\ everSet = FALSE
  /\ repeated = FALSE

AddString(name, def) ==
  /\ locales' = add(locales, name, def)
  /\ call' = Call("addString", name, def, <<>>, <<>>, Undef)
  /\ outcome' = Outcome("ok", <<>>)
  /\ repeated' = FALSE
  /\ UNCHANGED <<locale, delimiters, everSet>>

AddMap(m) ==
  /\ locales' = addEach(locales, m)
  /\ call' = Call("addMap", NoName, UndefinedDef, m, <<>>, Undef)
  /\ outcome' = Outcome("ok", <<>>)
  /\ repeated' = FALSE
  /\ UNCHANGED <<locale, delimiters, everSet>>

\* add with a first argument that is neither an object nor a string
AddOther ==
  /\ call' = Call("addOther", NoName, UndefinedDef, <<>>, <<>>, Undef)
  /\ outcome' = Outcome("ok", <<>>)
  /\ repeated' = FALSE
  /\ UNCHANGED <<locales, locale, delimiters, everSet>>

SetLocale(name) ==
  LET r == setLocale(locales, locale, name)
  IN /\ locale' = r.locale
     /\ call' = Call("setLocale", name, UndefinedDef, <<>>, <<>>, Undef)
     /\ outcome' = Outcome(IF r.threw THEN "LocaleNotFoundError" ELSE "ok", <<>>)
     /\ everSet' = (everSet \/ ~r.threw)
     /\ repeated' = FALSE
     /\ UNCHANGED <<locales, delimiters>>

Translate(key, data) ==
  /\ outcome' = translate(locales, locale, delimiters, key, data)
  /\ locales' = localesAfterTranslate(locales, locale, delimiters, key, data)
  /\ call' = Call("translate", NoName, UndefinedDef, <<>>, key, data)
  /\ repeated' = (call = Call("translate", NoName, UndefinedDef, <<>>, key, data))
  /\ UNCHANGED <<locale, delimiters, everSet>>

Next ==
  \/ \E name \in Names, def \in DefPool : AddString(name, def)
  \/ \E m \in Mappings : AddMap(m)
  \/ AddOther
  \/ \E name \in Names : SetLocale(name)
  \/ \E key \in KeyPool, data \in DataPool : Translate(key, data)

Spec == Init /\ [][Next]_vars

-----------------------------------------------------------------------------
(* Translation of generated templates: a Translator constructed with one   *)
(* locale whose words hold a template at depth one (a) and two (b.a)       *)

\* literal text between placeholders
Literals == {<<>>, <<" ", "x", " ">>}

\* templates with a stray end delimiter after a placeholder, an empty
\* placeholder and a blank one
ExtraTemplates(d) ==
  {<<"x", " ">> \o d[1] \o <<"a">> \o d[2] \o <<" ">> \o d[2],
   d[1] \o d[2],
   d[1] \o <<" ">> \o d[2]}

\* placeholders written with the delimiters d, with the variable path each
\* one names
Placeholders(d) ==
  {[text |-> d[1] \o <<"a">> \o d[2], path |-> <<"a">>],
   [text |-> d[1] \o <<" ", "b", " ">> \o d[2], path |-> <<"b">>],
   [text |-> d[1] \o <<"a", ".", "b">> \o d[2], path |-> <<"a", ".", "b">>]}

RECURSIVE Templates(_, _)
Templates(d, n) ==
  IF n = 0 THEN Literals
  ELSE Templates(d, n - 1)
         \cup {t \o p.text \o l : t \in Templates(d, n - 1),
                                   p \in Placeholders(d), l \in Literals}

TemplateDef(t) ==
  [id |-> "t",
   words |-> Obj(<< P(<<"a">>, Str(t)),
                    P(<<"b">>, Obj(<< P(<<"a">>, Str(t)) >>)),
                    P(<<"c">>, Str(<<>>)) >>)]

PlainData ==
  {Undef,
   Obj(<< P(<<"a">>, Str(<<"1">>)), P(<<"b">>, Str(<<"2">>)) >>),
   Obj(<< P(<<"a">>, Obj(<< P(<<"b">>, Str(<<"3">>)) >>)) >>)}

TemplateData ==
  PlainData
    \cup {Obj(<< P(<<"a">>, Str(<<"$", "$">>)) >>),
          Obj(<< P(<<"a">>, Str(<<"$", "&">>)), P(<<"b">>, Str(<<>>)) >>)}

InitTranslate ==
  /\ delimiters \in {DefaultDelimiters, CustomDelimiters}
  /\ \E t \in Templates(delimiters, MaxPlaceholders) \cup ExtraTemplates(delimiters) :
        locales = [n \in {"en"} |-> TemplateDef(t)]
  /\ locale = "en"
  /\ call = NoCall
  /\ outcome = Outcome("ok", <<>>)
  /\ everSet = FALSE
  /\ repeated = FALSE

NextTranslate ==
  \E key \in KeyPool, data \in TemplateData : Translate(key, data)

SpecTranslate == InitTranslate /\ [][NextTranslate]_vars

\* the value reached by following the segments one own property at a time
RECURSIVE Walk(_, _)
Walk(n, segs) ==
  IF segs = <<>> THEN n
  ELSE IF ~HasOwn(n, Head(segs)) THEN Undef
  ELSE Walk(Prop(n, Head(segs)), Tail(segs))

\* the text a placeholder stands for under the data of a call
ValueOf(p, data) ==
  LET v == Walk(data, SplitDots(p.path))
  IN IF v.t = "undefined" THEN <<>> ELSE ToStr(v)

\* the template the key of the last call resolves to
ResolvedTemplate == Walk(locales[locale].words, SplitDots(call.key))

\* C6: with a valid active locale, translate fails with
\* TranslationNotFoundError exactly when walking the segments of the key
\* gives no value or a falsy leaf; when the walk reaches a non-empty string
\* leaf (at any depth) translate does not fail, and returns the leaf itself
\* when the leaf holds no placeholder.
C6_NotFoundIffWalkFalsy ==
  (call.op = "translate" /\ locale \in DOMAIN locales
     /\ locales[locale].id # "undefined") =>
    LET leaf == ResolvedTemplate
    IN /\ (outcome.kind = "TranslationNotFoundError")
            <=> (leaf.t = "undefined" \/ (leaf.t = "string" /\ leaf.s = <<>>))
       /\ (leaf.t = "string" /\ leaf.s # <<>>) => outcome.kind = "ok"
       /\ (leaf.t = "string" /\ leaf.s \in Literals \ {<<>>})
            => outcome.value = leaf.s

\* C6 witness: translate of the deep key b.a returned a string built from a
\* non-empty leaf
C6_Witness ==
  /\ call.op = "translate"
  /\ call.key = <<"b", ".", "a">>
  /\ call.data = Undef
  /\ ResolvedTemplate.t = "string"
  /\ Len(ResolvedTemplate.s) > 3
  /\ outcome.kind = "ok"

\* C7: a template holding one placeholder between literal text is returned
\* with the placeholder replaced by the value its variable path finds in
\* data, or by the empty string when there is none, and the text around it
\* unchanged; translate does not fail.
C7_PlaceholderReplacedByValue ==
  (call.op = "translate" /\ call.key \in {<<"a">>, <<"b", ".", "a">>}) =>
    \A l0 \in Literals, l1 \in Literals, p \in Placeholders(delimiters) :
      ResolvedTemplate.s = l0 \o p.text \o l1 =>
        outcome = Outcome("ok", l0 \o ValueOf(p, call.data) \o l1)

\* C9: a template holding two placeholders is returned with each one
\* replaced by the value of its own variable path and the literal text
\* between and around them preserved.
C9_EachPlaceholderReplaced ==
  (call.op = "translate" /\ call.key \in {<<"a">>, <<"b", ".", "a">>}
     /\ call.data \in PlainData) =>
    \A l0 \in Literals, l1 \in Literals, l2 \in Literals,
       p1 \in Placeholders(delimiters), p2 \in Placeholders(delimiters) :
      ResolvedTemplate.s = l0 \o p1.text \o l1 \o p2.text \o l2 =>
        outcome = Outcome("ok", l0 \o ValueOf(p1, call.data) \o l1
                                   \o ValueOf(p2, call.data) \o l2)

-----------------------------------------------------------------------------
(* Properties of the locale registry, checked under Spec *)

MapNames(m) == {m[i].name : i \in 1..Len(m)}

\* the locale map after add(name, def) for each entry of m in turn
RECURSIVE OneByOne(_, _)
OneByOne(ls, m) ==
  IF m = <<>> THEN ls
  ELSE OneByOne((Head(m).name :> Head(m).def) @@ ls, Tail(m))

NoActiveLocaleEverywhere ==
  \A key \in KeyPool, data \in DataPool :
    translate(locales, locale, delimiters, key, data).kind = "NoActiveLocaleError"

NoActiveLocaleSomewhere ==
  \E key \in KeyPool, data \in DataPool :
    translate(locales, locale, delimiters, key, data).kind = "NoActiveLocaleError"

\* C1 as stated: setLocale(name) throws if and only if name is not a key of
\* the locale map; when it does not throw, the active locale name becomes
\* name and currentLocale is the definition stored under name.
C1_ThrowsIffNotAKey ==
  [][call'.op = "setLocale" =>
       /\ (outcome'.kind = "LocaleNotFoundError") <=> (call'.name \notin DOMAIN locales)
       /\ outcome'.kind = "ok" =>
            /\ locale' = call'.name
            /\ currentLocale(locales', locale') = Read(locales, call'.name)]_vars

\* C1 amended: setLocale(name) throws if and only if the value stored under
\* name is falsy (name is not a key, or it is a key holding undefined); when
\* it does not throw, the active locale name becomes name and currentLocale
\* is the definition stored under name.
C1_ThrowsIffStoredFalsy ==
  [][call'.op = "setLocale" =>
       LET stored == IF call'.name \in DOMAIN locales
                       THEN locales[call'.name] ELSE UndefinedDef
       IN /\ (outcome'.kind = "LocaleNotFoundError") <=> (stored.id = "undefined")
          /\ outcome'.kind = "ok" =>
               /\ locale' = call'.name
               /\ currentLocale(locales', locale') = stored]_vars

\* C1 witness: setLocale threw for a name that is a key of the locale map
C1_Witness ==
  /\ call.op = "setLocale"
  /\ outcome.kind = "LocaleNotFoundError"
  /\ call.name \in DOMAIN locales

\* C2: a setLocale call that fails leaves the active locale name and the
\* locale map exactly as they were.
C2_FailedSetLocaleChangesNothing ==
  [][(call'.op = "setLocale" /\ outcome'.kind = "LocaleNotFoundError") =>
       (locale' = locale /\ locales' = locales)]_vars

\* C2 witness: setLocale failed for an unregistered name while a locale set
\* by an earlier successful setLocale is active
C2_Witness ==
  /\ call.op = "setLocale"
  /\ outcome.kind = "LocaleNotFoundError"
  /\ call.name \notin DOMAIN locales
  /\ everSet
  /\ locale \in DOMAIN locales

\* C3: after add(name, def) the locale map is the previous map with name
\* mapped to def itself (inserted or overwritten), every other entry is
\* unchanged and the active locale name is unchanged.
C3_AddStoresDefinition ==
  [][call'.op = "addString" =>
       /\ DOMAIN locales' = DOMAIN locales \cup {call'.name}
       /\ locales'[call'.name] = call'.def
       /\ \A n \in DOMAIN locales \ {call'.name} : locales'[n] = locales[n]
       /\ locale' = locale]_vars

\* C3 witness: add overwrote the entry of the active locale name with
\* another definition
C3_Witness ==
  /\ call.op = "addString"
  /\ call.name = locale
  /\ everSet
  /\ call.def = Def2
  /\ locales[call.name] = Def2

\* C4: add(map) leaves the Translator as add(name, def) for each entry in
\* iteration order does: every entry of the mapping is in the locale map,
\* entries not named in the mapping are untouched and the active locale
\* name is unchanged.
C4_AddMapIsSequentialAdd ==
  [][call'.op = "addMap" =>
       LET m == call'.map
       IN /\ DOMAIN locales' = DOMAIN locales \cup MapNames(m)
          /\ \A i \in 1..Len(m) : locales'[m[i].name] = m[i].def
          /\ \A n \in DOMAIN locales \ MapNames(m) : locales'[n] = locales[n]
          /\ locales' = OneByOne(locales, m)
          /\ locale' = locale]_vars

\* C4 witness: add(map) with two entries happened while a locale is active
C4_Witness ==
  /\ call.op = "addMap"
  /\ Len(call.map) = 2
  /\ locale \in MapNames(call.map)
  /\ \A i \in 1..2 : locales[call.map[i].name] = call.map[i].def

\* C5: whenever the active locale name is undefined or is not a key of the
\* locale map, translate fails with NoActiveLocaleError for every key and
\* data (never with TranslationNotFoundError).
C5_NoActiveLocale ==
  /\ (locale = NoLocale \/ locale \notin DOMAIN locales) => NoActiveLocaleEverywhere
  /\ (call.op = "translate" /\ (locale = NoLocale \/ locale \notin DOMAIN locales))
        => outcome.kind = "NoActiveLocaleError"

\* C5 witness: translate failed with NoActiveLocaleError under a dangling
\* default locale, for a key that a registered locale would resolve
C5_Witness ==
  /\ call.op = "translate"
  /\ outcome.kind = "NoActiveLocaleError"
  /\ locale # NoLocale
  /\ locale \notin DOMAIN locales
  /\ \E n \in DOMAIN locales : Truthy(get(locales[n].words, call.key))

\* C8: translate changes neither the locale map (word trees included) nor
\* the active locale name, and a translate call repeated with the same key
\* and data right after another yields the same outcome.
C8_TranslateReadOnlyIdempotent ==
  [][call'.op = "translate" =>
       /\ locales' = locales
       /\ locale' = locale
       /\ (call.op = "translate" /\ call.key = call'.key /\ call.data = call'.data)
            => outcome' = outcome]_vars

\* C8 witness: the same successful translate call with a substitution was
\* made twice in a row
C8_Witness ==
  /\ repeated
  /\ call.op = "translate"
  /\ call.data # Undef
  /\ outcome = Outcome("ok", <<"x", " ", "1">>)

\* C10 as stated: once a setLocale call has succeeded, translate never fails
\* with NoActiveLocaleError, whatever add and setLocale calls follow.
C10_NeverLeavesActiveState ==
  everSet => ~NoActiveLocaleSomewhere

\* C10 amended: once a setLocale call has succeeded, the active locale name
\* stays a key of the locale map whatever add and setLocale calls follow,
\* and translate fails with NoActiveLocaleError only while the value stored
\* under the active name is falsy (an add overwrote it with undefined).
C10_ActiveNameStaysRegistered ==
  everSet =>
    /\ locale \in DOMAIN locales
    /\ NoActiveLocaleSomewhere => locales[locale].id = "undefined"
    /\ locales[locale].id # "undefined" => ~NoActiveLocaleSomewhere

\* C10 witness: after a successful setLocale an add overwrote the active
\* name with undefined
C10_Witness ==
  /\ everSet
  /\ call.op = "addString"
  /\ call.name = locale
  /\ call.def = UndefinedDef
  /\ NoActiveLocaleSomewhere

====
